---- MODULE Spec2Model ----
(***************************************************************************)
(* Plister: conversion of .plist files (XML or binary) to JSON.            *)
(* A model of src/plister.py: the directory scan, the output path mapping, *)
(* the conversion of one file, and main()'s batch and single-file runs.    *)
(*                                                                         *)
(* A file name is a sequence of one-character strings; a path is a record  *)
(* [some, abs, parts]: `parts` are its components, `abs` tells whether it  *)
(* starts at the root, and `some` is FALSE for Python's None.              *)
(***************************************************************************)
EXTENDS Integers, Sequences, FiniteSets, TLC

\* ------------------------------------------------------------------ bounds
\* At most this many regular files lie under the input directory.
MaxFiles == 3

\* ------------------------------------------------------------- characters
UpperLetters == <<"A","B","C","D","E","F","G","H","I","J","K","L","M",
                  "N","O","P","Q","R","S","T","U","V","W","X","Y","Z">>
LowerLetters == <<"a","b","c","d","e","f","g","h","i","j","k","l","m",
                  "n","o","p","q","r","s","t","u","v","w","x","y","z">>
\* The characters in code point order: "." (46) < "/" (47) < A-Z < a-z.
Alphabet == <<".", "/">> \o UpperLetters \o LowerLetters

Ord(c) == CHOOSE i \in 1..Len(Alphabet) : Alphabet[i] = c

\* str.lower() on one character, then on a string.
LowerChar(c) ==
    IF \E i \in 1..Len(UpperLetters) : UpperLetters[i] = c
    THEN LowerLetters[CHOOSE i \in 1..Len(UpperLetters) : UpperLetters[i] = c]
    ELSE c

Lower(s) == [i \in 1..Len(s) |-> LowerChar(s[i])]

\* str.endswith(suffix)
EndsWith(s, suffix) ==
    /\ Len(s) >= Len(suffix)
    /\ SubSeq(s, Len(s) - Len(suffix) + 1, Len(s)) = suffix

\* Python's < on two strings: the first differing code point decides, and a
\* proper prefix is smaller.
RECURSIVE StrLess(_, _)
StrLess(s, t) ==
    IF t = <<>> THEN FALSE
    ELSE IF s = <<>> THEN TRUE
    ELSE IF Head(s) # Head(t) THEN Ord(Head(s)) < Ord(Head(t))
    ELSE StrLess(Tail(s), Tail(t))

\* ------------------------------------------------------------------ names
DotPlist == <<".","p","l","i","s","t">>
DotJson  == <<".","j","s","o","n">>
n_w      == <<"w">>
n_foo    == <<"f","o","o">>
n_out    == <<"o","u","t">>
n_bar    == <<"b","a","r">>
n_nope   == <<"n","o","p","e">>
n_a      == <<"a">> \o DotPlist
n_b      == <<"b">> \o DotPlist
n_C      == <<"C",".","P","L","I","S","T">>
n_baz    == <<"b","a","z">> \o DotPlist
n_d      == <<"d">> \o DotPlist
n_ajson  == <<"a">> \o DotJson

\* ------------------------------------------------------------------ paths
None == [some |-> FALSE, abs |-> FALSE, parts |-> <<>>]
Path(abs, parts) == [some |-> TRUE, abs |-> abs, parts |-> parts]
Rel(parts) == Path(FALSE, parts)

\* Python truthiness of an Optional[str]: None and "" are false.
Truthy(p) == p.some /\ (p.abs \/ p.parts # <<>>)

\* The working directory of the process.
Cwd == <<n_w>>

RECURSIVE JoinSlash(_)
JoinSlash(parts) ==
    IF parts = <<>> THEN <<>>
    ELSE IF Len(parts) = 1 THEN parts[1]
    ELSE parts[1] \o <<"/">> \o JoinSlash(Tail(parts))

\* The path as the string Python holds.
PathStr(p) == (IF p.abs THEN <<"/">> ELSE <<>>) \o JoinSlash(p.parts)

\* os.path.abspath
Abspath(p) == IF p.abs THEN p ELSE Path(TRUE, Cwd \o p.parts)

\* os.path.dirname, os.path.basename
Dirname(p) ==
    IF p.parts = <<>> THEN p
    ELSE Path(p.abs, SubSeq(p.parts, 1, Len(p.parts) - 1))

Basename(p) ==
    IF p.parts = <<>> THEN Rel(<<>>) ELSE Rel(<<p.parts[Len(p.parts)]>>)

\* os.path.join(a, b): an absolute b discards a.
Join(a, b) == IF b.abs THEN b ELSE Path(a.abs, a.parts \o b.parts)

\* The index of the last dot of a name that follows a character other than a
\* dot, 0 when there is none (os.path.splitext ignores leading dots).
ExtDot(name) ==
    LET cand == { i \in 2..Len(name) :
                    /\ name[i] = "."
                    /\ \E j \in 1..(i - 1) : name[j] # "." }
    IN IF cand = {} THEN 0 ELSE CHOOSE i \in cand : \A k \in cand : k <= i

\* os.path.splitext(p)[0]
SplitextStem(p) ==
    IF p.parts = <<>> THEN p
    ELSE LET n == Len(p.parts)
             name == p.parts[n]
             d == ExtDot(name)
             stem == IF d = 0 THEN name ELSE SubSeq(name, 1, d - 1)
         IN Path(p.abs, SubSeq(p.parts, 1, n - 1) \o <<stem>>)

\* f"{stem}.json"
WithJson(p) ==
    LET n == Len(p.parts)
    IN Path(p.abs, SubSeq(p.parts, 1, n - 1) \o <<p.parts[n] \o DotJson>>)

\* The length of the longest common prefix of two component lists.
RECURSIVE CommonLen(_, _)
CommonLen(a, b) ==
    IF a = <<>> \/ b = <<>> \/ Head(a) # Head(b) THEN 0
    ELSE 1 + CommonLen(Tail(a), Tail(b))

Dot == <<".">>
DotDot == <<".", ".">>

\* os.path.relpath(p, start): both made absolute, the common prefix dropped,
\* one ".." for each component left of start.
Relpath(p, start) ==
    LET a == Abspath(p).parts
        s == Abspath(start).parts
        k == CommonLen(a, s)
        rel_list == [i \in 1..(Len(s) - k) |-> DotDot] \o SubSeq(a, k + 1, Len(a))
    IN IF rel_list = <<>> THEN Rel(<<Dot>>) ELSE Rel(rel_list)

\* os.path.normpath on the components: "." dropped, ".." removes its parent.
RECURSIVE Normparts(_, _)
Normparts(done, rest) ==
    IF rest = <<>> THEN done
    ELSE IF Head(rest) = Dot THEN Normparts(done, Tail(rest))
    ELSE IF Head(rest) = DotDot
         THEN Normparts(IF done = <<>> THEN <<>>
                        ELSE SubSeq(done, 1, Len(done) - 1), Tail(rest))
    ELSE Normparts(Append(done, Head(rest)), Tail(rest))

\* The key of a path in the file system: its absolute, normalised components.
Resolve(p) == Normparts(<<>>, Abspath(p).parts)

\* ------------------------------------------------------------ file system
\* The file system maps the absolute components of every existing entry to
\* its node; the root directory itself is implicit.
DirNode == [kind |-> "dir", data |-> "-", readable |-> TRUE]
FileNode(data) == [kind |-> "file", data |-> data, readable |-> TRUE]
Unreadable(data) == [kind |-> "file", data |-> data, readable |-> FALSE]

\* os.path.exists, os.path.isdir; "" names nothing.
IsEmptyStr(p) == ~p.abs /\ p.parts = <<>>
Exists(fsx, p) == ~IsEmptyStr(p) /\ Resolve(p) \in DOMAIN fsx
IsDir(fsx, p) == Exists(fsx, p) /\ fsx[Resolve(p)].kind = "dir"

Prefixes(q) == { SubSeq(q, 1, k) : k \in 1..Len(q) }

\* The entries directly inside directory d (a key).
ChildrenOf(fsx, d) ==
    { q \in DOMAIN fsx : Len(q) = Len(d) + 1 /\ SubSeq(q, 1, Len(d)) = d }

\* os.makedirs(path, exist_ok=True) raises when the path is "" or when the
\* path or one of its ancestors exists and is not a directory.
MakedirsRaises(fsx, p) ==
    \/ IsEmptyStr(p)
    \/ \E q \in Prefixes(Resolve(p)) : q \in DOMAIN fsx /\ fsx[q].kind # "dir"

\* ensure_directory(path), when it does not raise: every missing ancestor and
\* the directory itself are created.
ensure_directory(fsx, p) ==
    [q \in DOMAIN fsx \cup Prefixes(Resolve(p)) |->
        IF q \in DOMAIN fsx THEN fsx[q] ELSE DirNode]

\* ------------------------------------------------------- iter_plist_files
\* file.lower().endswith(".plist")
IsPlistNameCaseSensitive(name) == EndsWith(name, DotPlist)

IsPlistName(name) == EndsWith(Lower(name), DotPlist)

\* The directories os.walk(directory) visits: the directory and, below it,
\* every directory reached through directories.
RECURSIVE WalkRoots(_, _)
WalkRoots(fsx, d) ==
    {d} \cup UNION { WalkRoots(fsx, c) :
                       c \in { q \in ChildrenOf(fsx, d) : fsx[q].kind = "dir" } }

\* os.path.join(root, file) / entry.path for the entry with key q found under
\* `directory`: the directory as given, then the components below it.
EntryPath(directory, q) ==
    Join(directory, Rel(SubSeq(q, Len(Resolve(directory)) + 1, Len(q))))

\* The recursive branch: the non-directory entries of every visited directory
\* whose name matches.
WalkMatches(fsx, directory) ==
    { EntryPath(directory, q) :
        q \in { f \in UNION { ChildrenOf(fsx, r) : r \in WalkRoots(fsx, Resolve(directory)) } :
                  fsx[f].kind # "dir" /\ IsPlistName(f[Len(f)]) } }

\* The shallow branch: the entries of the directory that are files and match.
ScandirMatchesDeep(fsx, directory) == WalkMatches(fsx, directory)

ScandirMatches(fsx, directory) ==
    { EntryPath(directory, q) :
        q \in { f \in ChildrenOf(fsx, Resolve(directory)) :
                  fsx[f].kind = "file" /\ IsPlistName(f[Len(f)]) } }

PlistFound(fsx, directory, recursive) ==
    IF recursive THEN WalkMatches(fsx, directory)
    ELSE ScandirMatches(fsx, directory)

\* The orders in which the operating system may enumerate a set of entries.
Orderings(S) ==
    { s \in [1..Cardinality(S) -> S] :
        \A i, j \in 1..Cardinality(S) : i # j => s[i] # s[j] }

\* sorted(plist_files): the paths in ascending order of their strings.
RECURSIVE InsertSorted(_, _)
InsertSorted(x, seq) ==
    IF seq = <<>> THEN <<x>>
    ELSE IF StrLess(PathStr(Head(seq)), PathStr(x))
         THEN <<Head(seq)>> \o InsertSorted(x, Tail(seq))
    ELSE <<x>> \o seq

RECURSIVE SortRec(_)
SortRec(seq) ==
    IF seq = <<>> THEN <<>> ELSE InsertSorted(Head(seq), SortRec(Tail(seq)))

EnumerationOrder(seq) == seq

Sorted(seq) == SortRec(seq)

\* iter_plist_files(directory, recursive), given the order `listing` in which
\* the enumeration appended the matching entries.
iter_plist_files(listing) == Sorted(listing)

\* ---------------------------------------------------- compute_output_path
\* The path compute_output_path(plist_path, base_input_dir, output_dir)
\* returns; its ensure_directory call is modelled by the two operators below.
compute_output_path(plist_path, base_input_dir, output_dir) ==
    LET directory == IF Truthy(output_dir) THEN output_dir
                     ELSE Dirname(plist_path)
        rel_path == IF Truthy(base_input_dir)
                    THEN Relpath(plist_path, base_input_dir)
                    ELSE Basename(plist_path)
        json_rel_path == WithJson(SplitextStem(rel_path))
    IN Join(directory, json_rel_path)

\* compute_output_path raises when its ensure_directory call does.
ComputeOutputPathRaises(fsx, plist_path, base_input_dir, output_dir) ==
    MakedirsRaises(fsx, Dirname(compute_output_path(plist_path, base_input_dir, output_dir)))

\* The file system after a compute_output_path call that returns.
ComputeOutputPathFs(fsx, plist_path, base_input_dir, output_dir) ==
    ensure_directory(fsx, Dirname(compute_output_path(plist_path, base_input_dir, output_dir)))

\* ------------------------------------------- convert_single_plist_to_json
\* The third component of the returned tuple.
NoErr       == "None"
ErrInvalid  == "fichier .plist invalide ou corrompu"
ErrNotFound == "fichier introuvable"
ErrRead     == "erreur de lecture"
ErrJson     == "erreur de conversion JSON"

\* What a file can hold: a well-formed XML or binary plist, a binary plist
\* holding a UID (which json cannot serialise), malformed XML, a malformed
\* binary plist, bytes with no plist header, and what this program writes.
PlistData == {"xml_ok", "bin_ok", "bin_uid", "xml_bad", "bin_bad", "garbage"}

\* plistlib.load(fp): the exception it raises ("" when none) and the value.
\* The binary parser turns every parse failure into InvalidFileException, and
\* so does an unknown header; the XML parser lets expat's error through.
PlistLoad(data) ==
    CASE data \in {"xml_ok", "bin_ok"} -> [raised |-> "", value |-> "plain"]
      [] data = "bin_uid" -> [raised |-> "", value |-> "uid"]
      [] data = "xml_bad" -> [raised |-> "ExpatError", value |-> "-"]
      [] OTHER -> [raised |-> "InvalidFileException", value |-> "-"]

\* open(plist_path, "rb") followed by plistlib.load.
ReadPlist(fsx, plist_path) ==
    LET q == Resolve(plist_path)
    IN IF IsEmptyStr(plist_path) \/ q \notin DOMAIN fsx
       THEN [raised |-> IF \E a \in Prefixes(q) : a \in DOMAIN fsx /\ fsx[a].kind # "dir"
                        THEN "NotADirectoryError" ELSE "FileNotFoundError",
             value |-> "-"]
       ELSE IF fsx[q].kind = "dir"
       THEN [raised |-> "IsADirectoryError", value |-> "-"]
       ELSE IF ~fsx[q].readable
       THEN [raised |-> "PermissionError", value |-> "-"]
       ELSE PlistLoad(fsx[q].data)

\* The except clauses of the read phase, in their order.
ReadError(raised) ==
    IF raised = "InvalidFileException" THEN ErrInvalid
    ELSE IF raised = "FileNotFoundError" THEN ErrNotFound
    ELSE ErrRead

\* json.dump(plist_data, fp, default=convert_to_json_serializable): the text
\* that reaches fp, and whether the dump raised. Dates and bytes are converted;
\* any other type raises TypeError after the text before it was written.
JsonDump(value) ==
    IF value = "plain" THEN [raised |-> FALSE, text |-> "json"]
    ELSE [raised |-> TRUE, text |-> "partial"]

\* open(output_path, "w") on key q: the file is created, or truncated.
OpenForWrite(fsx, q, text) ==
    [k \in DOMAIN fsx \cup {q} |->
        IF k = q THEN [kind |-> "file", data |-> text,
                       readable |-> IF q \in DOMAIN fsx THEN fsx[q].readable ELSE TRUE]
        ELSE fsx[k]]

Returned(ok, err, fsx, so) == [ok |-> ok, err |-> err, fs |-> fsx, stdout |-> so]

\* The sink test of the write phase.
ToStdoutAlways(output_path, stream_output) == TRUE

ToStdout(output_path, stream_output) == stream_output \/ ~Truthy(output_path)

\* convert_single_plist_to_json(plist_path, output_path, indent, stream_output)
\* run on file system fsx and standard output so: the returned (ok, err) and
\* the file system and standard output it leaves.
convert_single_plist_to_json(fsx, so, plist_path, output_path, stream_output) ==
    LET r == ReadPlist(fsx, plist_path)
        dump == JsonDump(r.value)
        q == Resolve(output_path)
        fs1 == ensure_directory(fsx, Dirname(output_path))
    IN IF r.raised # "" THEN Returned(FALSE, ReadError(r.raised), fsx, so)
       ELSE IF ToStdout(output_path, stream_output)
       THEN IF dump.raised
            THEN Returned(FALSE, ErrJson, fsx, so \o <<dump.text>>)
            ELSE Returned(TRUE, NoErr, fsx, so \o <<dump.text, "\n">>)
       ELSE IF MakedirsRaises(fsx, Dirname(output_path))
       THEN Returned(FALSE, ErrJson, fsx, so)
       ELSE IF q \in DOMAIN fs1 /\ fs1[q].kind = "dir"
       THEN Returned(FALSE, ErrJson, fs1, so)
       ELSE IF dump.raised
       THEN Returned(FALSE, ErrJson, OpenForWrite(fs1, q, dump.text), so)
       ELSE Returned(TRUE, NoErr, OpenForWrite(fs1, q, dump.text), so)

\* ------------------------------------------------------------------ state
VARIABLES
    args,          \* the parsed command line: plist_file, output, output_dir,
                   \* recursive, no_progress
    fs,            \* the file system
    fs0,           \* the file system when the process started
    stdout,        \* what was written to standard output, in order
    stderr,        \* the messages printed to standard error, in order
    pc,            \* where main() is: "start", "loop" or "done"
    traversed,     \* whether iter_plist_files has enumerated the directory
    unsorted,      \* whether the enumeration yielded the files out of order
    plist_files,   \* main's plist_files
    base_dir,      \* main's base_dir
    output_dir,    \* main's output_dir
    progress_iter, \* "list" or "tqdm": what the loop iterates over
    results,       \* main's results
    calls,         \* the calls of convert_single_plist_to_json made so far
    exit_code      \* the status passed to sys.exit, NotExited while running

vars == <<args, fs, fs0, stdout, stderr, pc, traversed, unsorted, plist_files,
          base_dir, output_dir, progress_iter, results, calls, exit_code>>

NotExited == -1

\* The node at a key, AbsentNode when nothing is there.
AbsentNode == [kind |-> "none", data |-> "-", readable |-> TRUE]
NodeAt(fsx, q) == IF q \in DOMAIN fsx THEN fsx[q] ELSE AbsentNode

\* ------------------------------------------------------ the initial states
K_foo   == Cwd \o <<n_foo>>
K_out   == Cwd \o <<n_out>>
K_a     == K_foo \o <<n_a>>
K_b     == K_foo \o <<n_b>>
K_C     == K_foo \o <<n_C>>
K_baz   == K_foo \o <<n_bar, n_baz>>
K_d     == K_foo \o <<n_d>>
K_ajson == K_foo \o <<n_ajson>>

\* What the first file may hold, and what the others may.
RichNodes  == { FileNode(d) : d \in PlistData } \cup { Unreadable("xml_ok") }
PlainNodes == { FileNode(d) : d \in {"xml_ok", "bin_uid"} }
NodesFor(k) == IF k = K_a THEN RichNodes ELSE PlainNodes

\* The trees of regular files that may lie under foo.
Trees(universe) ==
    UNION { { t \in [S -> RichNodes \cup PlainNodes] : \A k \in S : t[k] \in NodesFor(k) } :
              S \in { X \in SUBSET universe : Cardinality(X) <= MaxFiles } }

\* Entries on the output side: out and foo/a.json, each absent ("none"), a
\* directory or a regular file; `pairs` lists the combinations.
Extras(pairs) ==
    { [k \in (IF x[1] = "none" THEN {} ELSE {K_out})
              \cup (IF x[2] = "none" THEN {} ELSE {K_ajson}) |->
         IF k = K_out THEN (IF x[1] = "dir" THEN DirNode ELSE FileNode("garbage"))
         ELSE (IF x[2] = "dir" THEN DirNode ELSE FileNode("json"))] :
        x \in pairs }

\* The file system holding a tree, the extras, every directory above them and
\* foo/d.plist, a directory named like a plist file.
MakeFs(tree, extra) ==
    LET keys == DOMAIN tree \cup DOMAIN extra
        dirs == {Cwd, K_foo, K_d} \cup
                UNION { { SubSeq(k, 1, n) : n \in 1..(Len(k) - 1) } : k \in keys }
    IN [k \in keys \cup dirs |->
          IF k \in DOMAIN tree THEN tree[k]
          ELSE IF k \in DOMAIN extra THEN extra[k]
          ELSE DirNode]

ArgsOf(f, o, d, r, n) ==
    [plist_file |-> f, output |-> o, output_dir |-> d, recursive |-> r,
     no_progress |-> n]

\* A directory given as input.
BatchInit ==
    \E tree \in Trees({K_a, K_b, K_C, K_baz}),
       extra \in Extras({<<"none", "none">>, <<"file", "none">>, <<"none", "dir">>}),
       o \in {None, Rel(<<n_out>>)},
       d \in {None, Rel(<<n_out>>)},
       r \in BOOLEAN, n \in BOOLEAN :
        /\ args = ArgsOf(Rel(<<n_foo>>), o, d, r, n)
        /\ fs = MakeFs(tree, extra)

\* A file, or a path that does not exist, given as input.
SingleInit ==
    \E tree \in Trees({K_a}),
       extra \in Extras({"none", "dir", "file"} \X {"none", "dir", "file"}),
       f \in {Rel(<<n_foo, n_a>>), Rel(<<n_nope>>)},
       o \in {None, Rel(<<>>), Rel(<<n_out>>), Rel(<<n_foo, n_ajson>>)},
       d \in {None, Rel(<<n_out>>)},
       r \in BOOLEAN, n \in BOOLEAN :
        /\ args = ArgsOf(f, o, d, r, n)
        /\ fs = MakeFs(tree, extra)

Init ==
    /\ BatchInit \/ SingleInit
    /\ fs0 = fs
    /\ stdout = <<>>
    /\ stderr = <<>>
    /\ pc = "start"
    /\ traversed = FALSE
    /\ unsorted = FALSE
    /\ plist_files = <<>>
    /\ base_dir = None
    /\ output_dir = None
    /\ progress_iter = "list"
    /\ results = <<>>
    /\ calls = <<>>
    /\ exit_code = NotExited

\* ----------------------------------------------------------------- main()
\* sys.exit(code), after printing `message` to standard error when given.
Exit(code, message) ==
    /\ exit_code' = code
    /\ pc' = "done"
    /\ stderr' = IF message = "" THEN stderr ELSE Append(stderr, message)

\* The record kept of one call of convert_single_plist_to_json.
CallRecord(fsx, plist_path, output_path, stream_output, ret) ==
    [plist_path |-> plist_path, output_path |-> output_path,
     stream_output |-> stream_output, ok |-> ret.ok, err |-> ret.err,
     before |-> NodeAt(fsx, Resolve(output_path)),
     after |-> NodeAt(ret.fs, Resolve(output_path)),
     written |-> SubSeq(ret.stdout, Len(stdout) + 1, Len(ret.stdout))]

\* Lines 168-170: the input path does not exist.
MainPathMissing ==
    /\ pc = "start"
    /\ ~Exists(fs, args.plist_file)
    /\ Exit(1, "chemin introuvable")
    /\ UNCHANGED <<args, fs, fs0, stdout, traversed, unsorted, plist_files,
                   base_dir, output_dir, progress_iter, results, calls>>

\* Lines 172-179: a directory in which iter_plist_files finds nothing.
BatchNothingFound ==
    /\ pc = "start"
    /\ IsDir(fs, args.plist_file)
    /\ PlistFound(fs, args.plist_file, args.recursive) = {}
    /\ plist_files' = iter_plist_files(<<>>)
    /\ traversed' = TRUE
    /\ Exit(1, "Aucun fichier .plist")
    /\ UNCHANGED <<args, fs, fs0, stdout, unsorted, base_dir, output_dir,
                   progress_iter, results, calls>>

\* The test of line 181.
OutputRejected(a) == Truthy(a.output) /\ ~Truthy(a.output_dir)

\* Lines 172-187: a directory with plist files, and -o without --output-dir.
BatchUsageError ==
    /\ pc = "start"
    /\ IsDir(fs, args.plist_file)
    /\ \E listing \in Orderings(PlistFound(fs, args.plist_file, args.recursive)) :
        /\ listing # <<>>
        /\ plist_files' = iter_plist_files(listing)
        /\ unsorted' = (listing # SortRec(listing))
    /\ traversed' = TRUE
    /\ OutputRejected(args)
    /\ Exit(2, "Option -o/--output reservee")
    /\ UNCHANGED <<args, fs, fs0, stdout, base_dir, output_dir, progress_iter,
                   results, calls>>

\* Lines 172-209: a directory with plist files; the loop is set up.
BatchBegin ==
    /\ pc = "start"
    /\ IsDir(fs, args.plist_file)
    /\ \E listing \in Orderings(PlistFound(fs, args.plist_file, args.recursive)) :
        /\ listing # <<>>
        /\ plist_files' = iter_plist_files(listing)
        /\ unsorted' = (listing # SortRec(listing))
        /\ progress_iter' = IF ~args.no_progress /\ Len(listing) > 1
                            THEN "tqdm" ELSE "list"
    /\ traversed' = TRUE
    /\ ~OutputRejected(args)
    /\ base_dir' = Abspath(args.plist_file)
    /\ output_dir' = IF Truthy(args.output_dir) THEN Abspath(args.output_dir)
                     ELSE args.output_dir
    /\ stdout' = Append(stdout, "Conversion de")
    /\ results' = <<>>
    /\ pc' = "loop"
    /\ UNCHANGED <<args, fs, fs0, stderr, calls, exit_code>>

\* The file the loop of line 211 takes next.
NextFile == plist_files[Len(results) + 1]

\* Lines 211-219: one iteration of the loop.
BatchStep ==
    /\ pc = "loop"
    /\ Len(results) < Len(plist_files)
    /\ ~ComputeOutputPathRaises(fs, NextFile, base_dir, output_dir)
    /\ LET output_path == compute_output_path(NextFile, base_dir, output_dir)
           fs1 == ComputeOutputPathFs(fs, NextFile, base_dir, output_dir)
           result == convert_single_plist_to_json(fs1, stdout, NextFile,
                                                  output_path, FALSE)
       IN /\ fs' = result.fs
          /\ stdout' = result.stdout
          /\ calls' = Append(calls, CallRecord(fs1, NextFile, output_path, FALSE, result))
          /\ results' = Append(results, [path |-> NextFile, ok |-> result.ok,
                                         err |-> result.err])
    /\ UNCHANGED <<args, fs0, stderr, pc, traversed, unsorted, plist_files,
                   base_dir, output_dir, progress_iter, exit_code>>

\* Line 212: compute_output_path raises; nothing catches the exception, the
\* interpreter prints the traceback and the process ends with status 1.
BatchCrash ==
    /\ pc = "loop"
    /\ Len(results) < Len(plist_files)
    /\ ComputeOutputPathRaises(fs, NextFile, base_dir, output_dir)
    /\ Exit(1, "Traceback")
    /\ UNCHANGED <<args, fs, fs0, stdout, traversed, unsorted, plist_files,
                   base_dir, output_dir, progress_iter, results, calls>>

\* The status of lines 228-233.
BatchExitCodeOne(res) == IF \E i \in 1..Len(res) : ~res[i].ok THEN 1 ELSE 0

BatchExitCode(res) == IF \E i \in 1..Len(res) : ~res[i].ok THEN 3 ELSE 0

\* Lines 221-233: the tally and the exit status.
BatchFinish ==
    /\ pc = "loop"
    /\ Len(results) = Len(plist_files)
    /\ stdout' = Append(stdout, "Conversion terminee")
    /\ Exit(BatchExitCode(results),
            IF BatchExitCode(results) = 0 THEN "" ELSE "Fichiers en erreur")
    /\ UNCHANGED <<args, fs, fs0, traversed, unsorted, plist_files, base_dir,
                   output_dir, progress_iter, results, calls>>

\* The test of line 236.
OutputIsDir(fsx, a) == IsDir(fsx, IF Truthy(a.output) THEN a.output ELSE Rel(<<>>))

\* Lines 236-241: a single file, and -o names an existing directory.
SingleUsageError ==
    /\ pc = "start"
    /\ Exists(fs, args.plist_file)
    /\ ~IsDir(fs, args.plist_file)
    /\ OutputIsDir(fs, args)
    /\ Exit(2, "utilisez -o/--output avec un chemin de fichier")
    /\ UNCHANGED <<args, fs, fs0, stdout, traversed, unsorted, plist_files,
                   base_dir, output_dir, progress_iter, results, calls>>

\* Lines 243-257: the conversion of a single file.
SingleConvert ==
    /\ pc = "start"
    /\ Exists(fs, args.plist_file)
    /\ ~IsDir(fs, args.plist_file)
    /\ ~OutputIsDir(fs, args)
    /\ LET plist_path == Abspath(args.plist_file)
           output_path == IF Truthy(args.output) THEN Abspath(args.output) ELSE None
           stream == ~output_path.some
           result == convert_single_plist_to_json(fs, stdout, plist_path,
                                                  output_path, stream)
       IN /\ fs' = result.fs
          /\ calls' = Append(calls, CallRecord(fs, plist_path, output_path, stream, result))
          /\ stdout' = IF result.ok /\ Truthy(output_path)
                       THEN Append(result.stdout, "Fichier converti")
                       ELSE result.stdout
          /\ IF result.ok THEN Exit(0, "") ELSE Exit(1, result.err)
    /\ UNCHANGED <<args, fs0, traversed, unsorted, plist_files, base_dir,
                   output_dir, progress_iter, results>>

Next ==
    \/ MainPathMissing
    \/ BatchNothingFound
    \/ BatchUsageError
    \/ BatchBegin
    \/ BatchStep
    \/ BatchCrash
    \/ BatchFinish
    \/ SingleUsageError
    \/ SingleConvert

Spec == Init /\ [][Next]_vars

\* ----------------------------------------------------------------- claims
Done == pc = "done"

\* The run was given a directory / an existing file that is no directory.
DirectoryRun == IsDir(fs0, args.plist_file)
SingleFileRun == Exists(fs0, args.plist_file) /\ ~IsDir(fs0, args.plist_file)

\* The regular files below the input directory (at any depth when recursive,
\* directly inside it otherwise) whose lower-cased name ends in ".plist".
MatchingKeys ==
    LET D == Resolve(args.plist_file)
    IN { q \in DOMAIN fs0 :
           /\ fs0[q].kind = "file"
           /\ Len(q) > Len(D)
           /\ SubSeq(q, 1, Len(D)) = D
           /\ args.recursive \/ Len(q) = Len(D) + 1
           /\ EndsWith(Lower(q[Len(q)]), DotPlist) }

\* The loop of a batch run was entered.
BatchStarted == DirectoryRun /\ pc \in {"loop", "done"} /\ base_dir.some

\* C1: in a batch run every file of the sorted candidate list is attempted,
\* whatever fails for one of them, and when the run ends the result list
\* holds exactly one entry per candidate.
C1_BatchNeverAborts ==
    (BatchStarted /\ Done) =>
        /\ Len(results) = Len(plist_files)
        /\ Len(calls) = Len(plist_files)
        /\ \A i \in 1..Len(plist_files) :
              results[i].path = plist_files[i] /\ calls[i].plist_path = plist_files[i]

\* The output file the mapping rule names for an input below the base root:
\* the path relative to the base root, its extension replaced by .json, under
\* the output root when one is given and next to the source file otherwise.
MirroredOutput(plist_path) ==
    LET q == Resolve(plist_path)
        b == Resolve(base_dir)
        rel == SubSeq(q, Len(b) + 1, Len(q))
        name == q[Len(q)]
        d == ExtDot(name)
        json == (IF d = 0 THEN name ELSE SubSeq(name, 1, d - 1)) \o DotJson
    IN IF Truthy(output_dir)
       THEN Resolve(output_dir) \o SubSeq(rel, 1, Len(rel) - 1) \o <<json>>
       ELSE SubSeq(q, 1, Len(q) - 1) \o <<json>>

\* C2: for every input below the base root, compute_output_path returns the
\* mirrored path under the output root, or the .json file next to the source
\* file when no output root is given.
C2_OutputPathMapping ==
    BatchStarted =>
        \A i \in 1..Len(calls) :
            Resolve(calls[i].output_path) = MirroredOutput(calls[i].plist_path)

\* C3: a directory together with -o/--output is rejected with status 2 before
\* the directory is traversed, any file is read or anything is created.
C3_DirectoryWithOutputRejectedFirst ==
    (DirectoryRun /\ Truthy(args.output)) =>
        /\ ~traversed
        /\ calls = <<>>
        /\ fs = fs0
        /\ Done => exit_code = 2

\* C4: a call of convert_single_plist_to_json that succeeds produces exactly
\* one artifact (the file, or the text on standard output), and a call that
\* fails produces none: the output path holds what it held before and
\* nothing reached standard output.
C4_OneArtifactOrNone ==
    \A i \in 1..Len(calls) :
        LET c == calls[i]
        IN IF c.ok
           THEN IF c.stream_output \/ ~Truthy(c.output_path)
                THEN c.written = <<"json", "\n">> /\ c.after = c.before
                ELSE c.written = <<>> /\ c.after.kind = "file" /\ c.after.data = "json"
           ELSE c.written = <<>> /\ c.after = c.before

\* C5: in a batch run the candidates are converted in ascending order of
\* their path strings, whatever order the enumeration yielded and whether or
\* not the progress bar wraps the list, and the i-th result is the outcome of
\* the i-th path of that order.
C5_SortedOrder ==
    BatchStarted =>
        /\ \A i, j \in 1..Len(plist_files) :
              i < j => StrLess(PathStr(plist_files[i]), PathStr(plist_files[j]))
        /\ Len(calls) = Len(results)
        /\ Len(results) <= Len(plist_files)
        /\ \A i \in 1..Len(results) :
              /\ calls[i].plist_path = plist_files[i]
              /\ results[i] = [path |-> plist_files[i], ok |-> calls[i].ok,
                               err |-> calls[i].err]

C5_Witness ==
    /\ BatchStarted
    /\ unsorted
    /\ progress_iter = "tqdm"
    /\ Len(results) = 3
    /\ \E i \in 1..3 : ~results[i].ok

\* The candidates of a finished batch: all converted, some failed, all failed.
BatchTallied == BatchStarted /\ Done /\ Len(results) = Len(plist_files)
AllSucceeded == \A i \in 1..Len(results) : results[i].ok
AllFailed == \A i \in 1..Len(results) : ~results[i].ok
NothingFound == DirectoryRun /\ Done /\ MatchingKeys = {}
UsageError ==
    /\ Done
    /\ \/ DirectoryRun /\ MatchingKeys # {} /\ Truthy(args.output)
             /\ ~Truthy(args.output_dir)
       \/ SingleFileRun /\ Truthy(args.output) /\ IsDir(fs0, args.output)

\* C6 as stated: ok exactly when every candidate succeeded; the signal of a
\* run in which some but not all candidates failed differs from the signal of
\* a run in which all failed; nothing found and usage error end with signals
\* distinct from each other and from ok.
C6_PartialDiffersFromTotal ==
    /\ (DirectoryRun /\ Done) => (exit_code = 0 <=> (BatchTallied /\ AllSucceeded))
    /\ (BatchTallied /\ ~AllSucceeded /\ ~AllFailed) =>
          exit_code # BatchExitCode([i \in 1..Len(results) |->
                                        [results[i] EXCEPT !.ok = FALSE]])
    /\ NothingFound => exit_code = 1
    /\ UsageError => exit_code = 2

\* C6 amended: a batch run ends 0 exactly when every candidate was converted;
\* a batch run that reaches its tally with at least one failure ends 3,
\* whether some or all candidates failed; nothing found ends 1 and a usage
\* error ends 2.
C6_ExitCodes ==
    /\ (DirectoryRun /\ Done) => (exit_code = 0 <=> (BatchTallied /\ AllSucceeded))
    /\ (BatchTallied /\ ~AllSucceeded) => exit_code = 3
    /\ NothingFound => exit_code = 1
    /\ UsageError => exit_code = 2

C6_Witness ==
    /\ BatchTallied
    /\ Len(results) = 3
    /\ ~AllSucceeded
    /\ ~AllFailed
    /\ exit_code = 3

\* C7: a run on a directory with no matching plist file (for the chosen
\* mode) ends with the "nothing found" message and status 1, never 0, without
\* converting anything or creating any file or directory.
C7_NothingToDo ==
    NothingFound =>
        /\ exit_code = 1
        /\ stderr = <<"Aucun fichier .plist">>
        /\ calls = <<>>
        /\ stdout = <<>>
        /\ fs = fs0

C7_Witness ==
    /\ NothingFound
    /\ ~args.recursive
    /\ K_baz \in DOMAIN fs0
    /\ Truthy(args.output_dir)
    /\ traversed

\* C8: the read phase classifies its failures: a missing file is "not found",
\* malformed XML or binary content is "invalid format", any other read
\* failure is a read error; each is returned as a failure that leaves the
\* output sink untouched.
C8_ReadFailureClassified ==
    \A i \in 1..Len(calls) :
        LET c == calls[i]
            node == NodeAt(fs0, Resolve(c.plist_path))
            untouched == ~c.ok /\ c.written = <<>> /\ c.after = c.before
        IN /\ node.kind = "none" => (c.err = ErrNotFound /\ untouched)
           /\ (node.kind = "file" /\ ~node.readable) => (c.err = ErrRead /\ untouched)
           /\ (node.kind = "file" /\ node.readable
                 /\ node.data \in {"xml_bad", "bin_bad", "garbage"}) =>
                 (c.err = ErrInvalid /\ untouched)

\* C9: iter_plist_files returns each regular file whose name ends in .plist
\* (case-insensitively) exactly once: at any depth when recursive, direct
\* children only otherwise, and never a directory of such a name.
C9_IterPlistFiles ==
    (DirectoryRun /\ traversed) =>
        /\ { Resolve(plist_files[i]) : i \in 1..Len(plist_files) } = MatchingKeys
        /\ Len(plist_files) = Cardinality(MatchingKeys)

C9_Witness ==
    /\ DirectoryRun
    /\ traversed
    /\ args.recursive
    /\ K_d \in DOMAIN fs0
    /\ {K_C, K_baz, K_a} \subseteq { Resolve(plist_files[i]) : i \in 1..Len(plist_files) }

\* The rule of a single-file run, `given` telling whether -o counts as given:
\* -o naming an existing directory is rejected with status 2 before the input
\* is read or anything is written; otherwise the one conversion writes to the
\* -o file when -o is given and to standard output exactly when it is not.
SingleFileSinkRule(given) ==
    (SingleFileRun /\ Done) =>
        IF Truthy(args.output) /\ IsDir(fs0, args.output)
        THEN exit_code = 2 /\ calls = <<>> /\ fs = fs0 /\ stdout = <<>>
        ELSE /\ Len(calls) = 1
             /\ calls[1].plist_path = Abspath(args.plist_file)
             /\ IF given
                THEN /\ ~calls[1].stream_output
                     /\ calls[1].output_path = Abspath(args.output)
                     /\ calls[1].written = <<>>
                     /\ \A q \in DOMAIN fs :
                           NodeAt(fs0, q) # fs[q] => q \in Prefixes(Resolve(args.output))
                     /\ calls[1].ok =>
                           /\ fs[Resolve(args.output)].data = "json"
                           /\ stdout = <<"Fichier converti">>
                ELSE /\ calls[1].stream_output
                     /\ fs = fs0
                     /\ calls[1].ok => stdout = <<"json", "\n">>

====
